---- MODULE Spec2Model ----
(***************************************************************************)
(* Recording session control of PyQt5_FFmpeg_Screen_Recorder.py.           *)
(*                                                                         *)
(* Three kinds of execution context are modelled:                          *)
(*   - the UI thread (the Qt event loop running ScreenRecorder's slots);   *)
(*     its handlers are atomic with respect to each other, but             *)
(*     FFmpegThread.stop(), which runs on the UI thread, is split at the   *)
(*     points where it touches state shared with a monitor thread;         *)
(*   - one monitor thread per FFmpegThread object (FFmpegThread.run);      *)
(*   - the external encoder process of each monitor thread.                *)
(* Signals emitted by run() cross threads and are queued to the UI thread  *)
(* (uiQueue); error_occurred emitted by stop() is emitted on the UI thread *)
(* itself and therefore runs recording_failed synchronously.               *)
(*                                                                         *)
(* start_recording and set_region each do two things that share no state:  *)
(* they drive the session (threads, widgets, window) and they handle the    *)
(* capture geometry and the FFmpeg command line.  Spec follows the session  *)
(* and leaves the command variables alone; CmdSpec follows the settings,    *)
(* the region rectangle and the command built from them, and leaves the     *)
(* session variables alone.                                                 *)
(***************************************************************************)
EXTENDS Integers, Sequences, FiniteSets, TLC

\* ------------------------------------------------------------------ bounds
\* Number of recording sessions (FFmpegThread objects) a run may start.
MaxSessions == 2
\* Number of FFmpegThread.stop() calls a run may make.
MaxStops == 2

\* ------------------------------------------------------- environment inputs
\* Values of platform.system().
Platforms == {"Windows", "Linux"}
\* Exit statuses the encoder may report.
ExitStatuses == {0, 1, 2, 130}
\* Bytes the encoder may have written to stderr; "xFF" stands for a byte that
\* is not valid UTF-8, " " and "\n" for whitespace.
StderrOutputs == {<< >>, <<" ", "xFF", "E", "\n">>}
\* Keys the global keyboard hook may report as pressed.
Keys == {"s", "p", "u", "x"}
\* str(e) of an exception raised by Popen, communicate or send_signal.
ExcText == <<"exc">>

NoThread == 0
NoCode == -1

\* Items of res_combo and bit_rate_combo, values of fps_spin, entries of
\* audio_combo and files the save dialog may return ("" when cancelled).
Resolutions == {"1920x1080", "1280x720"}
BitRates == {"96k", "128k"}
FrameRates == {30, 60}
AudioDevices == {"None", "Microphone"}
OutputPaths == {"", "/tmp/out.mp4"}
\* Global positions of the mouse while a region is selected.
MousePoints == {<<100, 50>>, <<300, 250>>, <<301, 251>>, <<99, 50>>, <<-1000, 10>>}
\* QApplication.desktop().screenGeometry(i) of the connected screens: the
\* primary screen and one placed to its left.
ScreenGeometries ==
    <<[x |-> 0, y |-> 0, width |-> 1920, height |-> 1080],
      [x |-> -1280, y |-> 0, width |-> 1280, height |-> 720]>>
\* Text of output_path_line_edit set by initUI.
DefaultOutputPath == "Downloads/screen_recording.mp4"

\* Child widgets of the main window that enable_widgets() reaches.
Widgets ==
    {"start_button", "stop_button", "screen_combo", "res_combo", "fps_spin",
     "audio_combo", "bit_rate_combo", "region_checkbox",
     "output_path_line_edit", "output_path_button"}

VARIABLES
    platform,        \* platform.system()
    threads,         \* the FFmpegThread objects created so far, in order
    obs,             \* per thread: what stop() and run() have done (observer)
    ffmpeg_thread,   \* ScreenRecorder.ffmpeg_thread: index into threads, or NoThread
    enabled,         \* isEnabled() of each child widget
    overlay,         \* RecordingOverlay is blinking/shown
    windowState,     \* main window: "normal", "minimized" or "closed"
    key_listener,    \* KeyListenerThread: "notstarted", "running" or "stopped"
    selector,        \* RegionSelector: "None", "created", "shown" or "closed"
    selTimer,        \* the singleShot timer of select_region is armed
    region_checked,  \* region_checkbox.isChecked()
    uiPc,            \* position of the UI thread: "idle", or inside stop()
    uiCaller,        \* the handler that called stop(): what runs when it returns
    uiQueue,         \* signals queued from monitor threads to the UI thread
    stopsMade,       \* number of stop() calls made so far
    settings,        \* current values of the combos, the spin box and output_path
    start_pos_global,     \* RegionSelector.start_pos_global, << >> for None
    capture_rect_global,  \* ScreenRecorder.capture_rect_global, << >> for None
    cmd              \* the command of the session being recorded, << >> if none

\* The variables of the session.
sessionVars ==
    <<platform, threads, obs, ffmpeg_thread, enabled, overlay, windowState,
      key_listener, selector, selTimer, region_checked, uiPc, uiCaller, uiQueue,
      stopsMade>>

\* The variables of the capture geometry and the command line.
cmdVars == <<settings, start_pos_global, capture_rect_global, cmd>>

vars ==
    <<platform, threads, obs, ffmpeg_thread, enabled, overlay, windowState,
      key_listener, selector, selTimer, region_checked, uiPc, uiCaller, uiQueue,
      stopsMade, settings, start_pos_global, capture_rect_global, cmd>>

\* ---------------------------------------------------------- pure functions

\* bytes.decode(errors="ignore"): bytes that are not valid text are dropped.
RECURSIVE Decode(_)
Decode(bytes) ==
    IF bytes = << >> THEN << >>
    ELSE IF Head(bytes) = "xFF" THEN Decode(Tail(bytes))
    ELSE <<Head(bytes)>> \o Decode(Tail(bytes))

IsSpace(c) == c \in {" ", "\n"}

RECURSIVE LStrip(_)
LStrip(s) ==
    IF s = << >> THEN << >>
    ELSE IF IsSpace(Head(s)) THEN LStrip(Tail(s))
    ELSE s

RECURSIVE RStrip(_)
RStrip(s) ==
    IF s = << >> THEN << >>
    ELSE IF IsSpace(s[Len(s)]) THEN RStrip(SubSeq(s, 1, Len(s) - 1))
    ELSE s

\* str.strip()
Strip(s) == RStrip(LStrip(s))

\* creationflags passed to Popen.
CreationFlags(p) == IF p = "Windows" THEN "CREATE_NEW_PROCESS_GROUP" ELSE "0"

\* Mutant of StopSignal: the platform test is missing.
StopSignal_NoPlatformTest(p) == "SIGINT"

\* The signal stop() passes to send_signal.
StopSignal(p) == IF p = "Windows" THEN "CTRL_BREAK_EVENT" ELSE "SIGINT"

\* Mutant of ExitNotification: every non-zero status counts as a failure.
ExitNotification_NonZeroFails(stopping, returncode, stderr) ==
    IF stopping THEN [kind |-> "finished", msg |-> << >>]
    ELSE IF returncode # 0
         THEN [kind |-> "failed", msg |-> Strip(Decode(stderr))]
         ELSE [kind |-> "finished", msg |-> << >>]

\* The signal run() emits once communicate() has returned.
ExitNotification(stopping, returncode, stderr) ==
    IF stopping THEN [kind |-> "finished", msg |-> << >>]
    ELSE IF returncode \notin {0, 2, 130}
         THEN [kind |-> "failed", msg |-> Strip(Decode(stderr))]
         ELSE [kind |-> "finished", msg |-> << >>]

\* QThread.isRunning(): from start() until run() has returned.
isRunning(t) == threads[t].pc \in {"start", "communicate", "returning"}

\* enable_widgets(enable): every child widget gets the same state.
enable_widgets(enable) == [w \in Widgets |-> enable]

\* FFmpegThread.__init__.  process is "None" until Popen has returned, then
\* "alive" while poll() is None and "exited" afterwards.
NewThread ==
    [pc |-> "start", process |-> "None", stopping |-> FALSE, creationflags |-> "0"]

NewObs ==
    [stopCalls |-> 0, closeRejected |-> 0, signals |-> << >>, emitted |-> << >>,
     stopBeforeExit |-> FALSE]

\* An FFmpegThread object that no longer exists: start_recording dropped the
\* only reference to it after its run() had returned.
Collected == [NewThread EXCEPT !.pc = "collected"]

Sessions == 1 .. Len(threads)

Queued(t) == \E i \in 1 .. Len(uiQueue) : uiQueue[i].t = t

\* The application is running: once the window has closed, app.exec_() returns
\* and the interpreter exits, taking the monitor threads with it.
AppRunning == windowState # "closed"

\* A thread that can do nothing more: run() has returned, its process is gone
\* and its signals have been delivered.  The observer forgets such a thread.
Quiescent(th, queue, t) ==
    /\ th.pc \in {"finished", "collected"}
    /\ th.process # "alive"
    /\ \A i \in 1 .. Len(queue) : queue[i].t # t

Forget(ths, queue, o) ==
    [t \in DOMAIN o |-> IF Quiescent(ths[t], queue, t) THEN NewObs ELSE o[t]]

\* ---------------------------------------------------------------- initial
Init ==
    /\ platform \in Platforms
    /\ threads = << >>
    /\ obs = << >>
    /\ ffmpeg_thread = NoThread
    /\ enabled = [enable_widgets(TRUE) EXCEPT !["stop_button"] = FALSE]
    /\ overlay = FALSE
    /\ windowState = "normal"
    /\ key_listener = "notstarted"
    /\ selector = "None"
    /\ selTimer = FALSE
    /\ region_checked = FALSE
    /\ uiPc = "idle"
    /\ uiCaller = "none"
    /\ uiQueue = << >>
    /\ stopsMade = 0
    /\ settings = [screen |-> 0, resolution |-> "1920x1080", fps |-> 30,
                   audio_device |-> "None", bit_rate |-> "96k",
                   output_path |-> DefaultOutputPath]
    /\ start_pos_global = << >>
    /\ capture_rect_global = << >>
    /\ cmd = << >>

\* The UI thread is in its event loop and the window exists.
UiReady == uiPc = "idle" /\ windowState # "closed"

\* ------------------------------------------------ UI thread: FFmpegThread.stop
\* QWidget.close() on the region selector, when there is one.
CloseSelector(sel) == IF sel = "None" THEN "None" ELSE "closed"

\* What the handler that called stop() still does once stop() has returned:
\* stop_recording closes the region selector, closeEvent ignores the event.
AfterStop(caller) ==
    /\ selector' = IF caller = "stop_recording" THEN CloseSelector(selector) ELSE selector
    /\ uiPc' = "idle"
    /\ uiCaller' = "none"

\* A handler calls self.ffmpeg_thread.stop(), whose first statement is
\* `if self.process and self.process.poll() is None`.  With a live process the
\* UI thread goes on to set the flag; otherwise stop() returns at once and the
\* calling handler finishes in the same step.
\* Mutant of CallStop: the test for a live process is missing.
CallStop_NoPoll(caller) ==
    /\ stopsMade < MaxStops
    /\ stopsMade' = stopsMade + 1
    /\ uiPc' = "stop_flag"
    /\ uiCaller' = caller
    /\ UNCHANGED selector

CallStop(caller) ==
    /\ stopsMade < MaxStops
    /\ stopsMade' = stopsMade + 1
    /\ IF threads[ffmpeg_thread].process = "alive"
       THEN /\ uiPc' = "stop_flag"
            /\ uiCaller' = caller
            /\ UNCHANGED selector
       ELSE AfterStop(caller)

\* The slot behind error_occurred.
recording_failed ==
    /\ overlay' = FALSE
    /\ enabled' = [enabled EXCEPT !["start_button"] = TRUE, !["stop_button"] = FALSE]
    /\ UNCHANGED windowState

\* The slot behind finished.
recording_finished ==
    /\ overlay' = FALSE
    /\ enabled' = [enable_widgets(TRUE) EXCEPT !["stop_button"] = FALSE]
    /\ windowState' = "normal"

\* Mutant of stop_set_flag: the flag is not set before the signal is sent.
stop_set_flag_NoFlag ==
    /\ uiPc = "stop_flag"
    /\ uiPc' = "stop_send"
    /\ UNCHANGED <<platform, threads, obs, ffmpeg_thread, enabled, overlay, windowState,
                   key_listener, selector, selTimer, region_checked, uiCaller, uiQueue, stopsMade>>
    /\ UNCHANGED cmdVars

\* stop(): `self._stopping = True`.
stop_set_flag ==
    /\ uiPc = "stop_flag"
    /\ threads' = [threads EXCEPT ![ffmpeg_thread].stopping = TRUE]
    /\ uiPc' = "stop_send"
    /\ UNCHANGED <<platform, obs, ffmpeg_thread, enabled, overlay, windowState,
                   key_listener, selector, selTimer, region_checked, uiCaller, uiQueue, stopsMade>>
    /\ UNCHANGED cmdVars

\* stop(): send_signal reaches the live process.
stop_send_delivered ==
    /\ uiPc = "stop_send"
    /\ threads[ffmpeg_thread].process = "alive"
    /\ obs' = [obs EXCEPT ![ffmpeg_thread].signals = Append(@, StopSignal(platform))]
    /\ AfterStop(uiCaller)
    /\ UNCHANGED <<platform, threads, ffmpeg_thread, enabled, overlay, windowState,
                   key_listener, selTimer, region_checked, uiQueue, stopsMade>>
    /\ UNCHANGED cmdVars

\* stop(): send_signal raises (whether or not the process is still alive).
\* error_occurred is emitted on the UI thread, so recording_failed runs before
\* stop() returns.
stop_send_raises ==
    /\ uiPc = "stop_send"
    /\ obs' = [obs EXCEPT ![ffmpeg_thread].emitted =
                 Append(@, [kind |-> "failed", by |-> "stop"])]
    /\ recording_failed
    /\ AfterStop(uiCaller)
    /\ UNCHANGED <<platform, threads, ffmpeg_thread, key_listener, selTimer,
                   region_checked, uiQueue, stopsMade>>
    /\ UNCHANGED cmdVars

\* stop(): the process exited after the poll(); send_signal finds it dead and
\* sends nothing.
stop_send_noop ==
    /\ uiPc = "stop_send"
    /\ threads[ffmpeg_thread].process = "exited"
    /\ AfterStop(uiCaller)
    /\ UNCHANGED <<platform, threads, obs, ffmpeg_thread, enabled, overlay, windowState,
                   key_listener, selTimer, region_checked, uiQueue, stopsMade>>
    /\ UNCHANGED cmdVars

\* ------------------------------------------------------- UI thread: handlers
\* `self.ffmpeg_thread = FFmpegThread(cmd)` drops the reference to the previous
\* thread object; one whose run() has returned, whose process is gone and
\* whose signals have all been delivered ceases to exist.
DropReference(ths) ==
    IF /\ ffmpeg_thread # NoThread
       /\ ths[ffmpeg_thread].pc = "finished"
       /\ ths[ffmpeg_thread].process # "alive"
       /\ ~Queued(ffmpeg_thread)
    THEN [ths EXCEPT ![ffmpeg_thread] = Collected]
    ELSE ths

start_recording ==
    /\ UiReady
    /\ enabled["start_button"]
    /\ Len(threads) < MaxSessions
    /\ threads' = Append(DropReference(threads), NewThread)
    /\ obs' = Append(obs, NewObs)
    /\ ffmpeg_thread' = Len(threads) + 1
    /\ overlay' = TRUE
    /\ enabled' = [enable_widgets(FALSE) EXCEPT !["stop_button"] = TRUE]
    /\ windowState' = "minimized"
    /\ key_listener' = "running"
    /\ UNCHANGED <<platform, selector, selTimer, region_checked, uiPc, uiCaller, uiQueue, stopsMade>>
    /\ UNCHANGED cmdVars

stop_recording ==
    /\ UiReady
    /\ IF ffmpeg_thread # NoThread
       THEN /\ CallStop("stop_recording")
            /\ obs' = [obs EXCEPT ![ffmpeg_thread].stopCalls = @ + 1]
       ELSE /\ selector' = CloseSelector(selector)
            /\ UNCHANGED <<obs, uiPc, uiCaller, stopsMade>>
    /\ UNCHANGED <<platform, threads, ffmpeg_thread, enabled, overlay, windowState,
                   key_listener, selTimer, region_checked, uiQueue>>
    /\ UNCHANGED cmdVars

\* The user clicks the Stop button.
stop_button_clicked ==
    /\ enabled["stop_button"]
    /\ stop_recording

\* Mutant of handle_key: every forwarded key stops the recording.
handle_key_AnyKey(key) == stop_recording

handle_key(key) ==
    IF key = "s" THEN stop_recording ELSE UNCHANGED vars

\* KeyListenerThread.run reads a key-down event and forwards the listed keys;
\* the queued key_pressed signal is handled by the UI thread.
key_down(key) ==
    /\ UiReady
    /\ key_listener = "running"
    /\ IF key \in {"s", "p", "u"} THEN handle_key(key) ELSE UNCHANGED vars

\* Mutant of closeEvent: `event.ignore(); return` is missing, so a close
\* requested while the thread runs calls stop() and is then accepted.
closeEvent_NoIgnore ==
    /\ UiReady
    /\ IF ffmpeg_thread # NoThread /\ isRunning(ffmpeg_thread)
       THEN /\ CallStop("closeEvent")
            /\ obs' = [obs EXCEPT ![ffmpeg_thread].stopCalls = @ + 1,
                                  ![ffmpeg_thread].closeRejected = @ + 1]
       ELSE UNCHANGED <<obs, selector, uiPc, uiCaller, stopsMade>>
    /\ key_listener' = IF key_listener = "running" THEN "stopped" ELSE key_listener
    /\ windowState' = "closed"
    /\ UNCHANGED <<platform, threads, ffmpeg_thread, enabled, overlay, selTimer,
                   region_checked, uiQueue>>
    /\ UNCHANGED cmdVars

closeEvent ==
    /\ UiReady
    /\ IF ffmpeg_thread # NoThread /\ isRunning(ffmpeg_thread)
       THEN /\ CallStop("closeEvent")
            /\ obs' = [obs EXCEPT ![ffmpeg_thread].stopCalls = @ + 1,
                                  ![ffmpeg_thread].closeRejected = @ + 1]
            /\ UNCHANGED <<windowState, key_listener>>
       ELSE /\ key_listener' = IF key_listener = "running" THEN "stopped" ELSE key_listener
            /\ windowState' = "closed"
            /\ UNCHANGED <<obs, selector, uiPc, uiCaller, stopsMade>>
    /\ UNCHANGED <<platform, threads, ffmpeg_thread, enabled, overlay, selTimer,
                   region_checked, uiQueue>>
    /\ UNCHANGED cmdVars

\* The UI event loop delivers the oldest queued signal of a monitor thread to
\* the slot connected in start_recording.
deliver_signal ==
    /\ UiReady
    /\ uiQueue # << >>
    /\ IF Head(uiQueue).kind = "finished" THEN recording_finished ELSE recording_failed
    /\ uiQueue' = Tail(uiQueue)
    /\ obs' = Forget(threads, Tail(uiQueue), obs)
    /\ UNCHANGED <<platform, threads, ffmpeg_thread, key_listener, selector,
                   selTimer, region_checked, uiPc, uiCaller, stopsMade>>
    /\ UNCHANGED cmdVars

\* ------------------------------------------------- UI thread: region selection
\* The user toggles the region checkbox; stateChanged runs select_region, which
\* acts only when the box is now checked.
select_region ==
    /\ UiReady
    /\ enabled["region_checkbox"]
    /\ region_checked' = ~region_checked
    /\ IF ~region_checked
       THEN /\ selector' = "created"
            /\ selTimer' = TRUE
            /\ windowState' = "minimized"
            /\ enabled' = [enable_widgets(FALSE) EXCEPT !["stop_button"] = TRUE]
       ELSE UNCHANGED <<selector, selTimer, windowState, enabled>>
    /\ UNCHANGED <<platform, threads, obs, ffmpeg_thread, overlay, key_listener,
                   uiPc, uiCaller, uiQueue, stopsMade>>
    /\ UNCHANGED cmdVars

\* QTimer.singleShot(100, self.selector.start_selection): showFullScreen().
start_selection ==
    /\ UiReady
    /\ selTimer
    /\ selTimer' = FALSE
    /\ selector' = "shown"
    /\ UNCHANGED <<platform, threads, obs, ffmpeg_thread, enabled, overlay, windowState,
                   key_listener, region_checked, uiPc, uiCaller, uiQueue, stopsMade>>
    /\ UNCHANGED cmdVars

\* RegionSelector.mouseReleaseEvent emits regionSelected on the UI thread, so
\* set_region runs at once; then the selector closes itself.  setChecked(False)
\* runs select_region again, which does nothing for an unchecked box.
set_region ==
    /\ UiReady
    /\ selector = "shown"
    /\ windowState' = "normal"
    /\ enabled' = enable_widgets(TRUE)
    /\ region_checked' = FALSE
    /\ selector' = "closed"
    /\ UNCHANGED <<platform, threads, obs, ffmpeg_thread, overlay, key_listener,
                   selTimer, uiPc, uiCaller, uiQueue, stopsMade>>
    /\ UNCHANGED cmdVars

\* ------------------------------------------- monitor thread: FFmpegThread.run
\* A signal emitted by run() is queued to the UI thread.
\* Besides the signal and its argument the queue entry records, for the
\* observer, the statement that emitted it, the exit status run() read and,
\* for a failure, the stderr bytes its message was made from.
Emit(t, n, by, status, err) ==
    /\ uiQueue' = Append(uiQueue,
                    [t |-> t, kind |-> n.kind, msg |-> n.msg, by |-> by,
                     status |-> status,
                     stderr |-> IF n.kind = "failed" THEN err ELSE << >>])
    /\ obs' = [obs EXCEPT ![t].emitted = Append(@, [kind |-> n.kind, by |-> by])]

\* Popen succeeds: the process is running and self.process is set.
run_popen(t) ==
    /\ AppRunning
    /\ threads[t].pc = "start"
    /\ threads' = [threads EXCEPT ![t].pc = "communicate",
                                  ![t].process = "alive",
                                  ![t].creationflags = CreationFlags(platform)]
    /\ UNCHANGED <<platform, obs, ffmpeg_thread, enabled, overlay, windowState,
                   key_listener, selector, selTimer, region_checked, uiPc, uiCaller,
                   uiQueue, stopsMade>>
    /\ UNCHANGED cmdVars

\* Mutant of run_popen_raises: the except clause emits finished.
run_popen_raises_Finished(t) ==
    /\ AppRunning
    /\ threads[t].pc = "start"
    /\ threads' = [threads EXCEPT ![t].pc = "returning"]
    /\ Emit(t, [kind |-> "finished", msg |-> << >>], "popen_exc", NoCode, << >>)
    /\ UNCHANGED <<platform, ffmpeg_thread, enabled, overlay, windowState,
                   key_listener, selector, selTimer, region_checked, uiPc, uiCaller, stopsMade>>
    /\ UNCHANGED cmdVars

\* Popen raises: `except Exception as e: self.error_occurred.emit(str(e))`.
run_popen_raises(t) ==
    /\ AppRunning
    /\ threads[t].pc = "start"
    /\ threads' = [threads EXCEPT ![t].pc = "returning"]
    /\ Emit(t, [kind |-> "failed", msg |-> ExcText], "popen_exc", NoCode, << >>)
    /\ UNCHANGED <<platform, ffmpeg_thread, enabled, overlay, windowState,
                   key_listener, selector, selTimer, region_checked, uiPc, uiCaller, stopsMade>>
    /\ UNCHANGED cmdVars

\* The encoder process exits, on its own or after an interrupt.
process_exit(t) ==
    /\ AppRunning
    /\ threads[t].process = "alive"
    /\ threads' = [threads EXCEPT ![t].process = "exited"]
    /\ obs' = Forget(threads', uiQueue,
                     [obs EXCEPT ![t].stopBeforeExit = (obs[t].stopCalls > 0)])
    /\ UNCHANGED <<platform, ffmpeg_thread, enabled, overlay, windowState,
                   key_listener, selector, selTimer, region_checked, uiPc, uiCaller,
                   uiQueue, stopsMade>>
    /\ UNCHANGED cmdVars

\* communicate() returns after the process has exited, with the bytes the
\* process wrote to stderr; run() reads _stopping and the return code the
\* process reported and emits one signal.
run_classify(t, returncode, stderr) ==
    /\ AppRunning
    /\ threads[t].pc = "communicate"
    /\ threads[t].process = "exited"
    /\ threads' = [threads EXCEPT ![t].pc = "returning"]
    /\ Emit(t, ExitNotification(threads[t].stopping, returncode, stderr),
            "classify", returncode, stderr)
    /\ UNCHANGED <<platform, ffmpeg_thread, enabled, overlay, windowState,
                   key_listener, selector, selTimer, region_checked, uiPc, uiCaller, stopsMade>>
    /\ UNCHANGED cmdVars

\* communicate() raises: the same except clause reports str(e).  The process
\* may still be alive.
run_communicate_raises(t) ==
    /\ AppRunning
    /\ threads[t].pc = "communicate"
    /\ threads' = [threads EXCEPT ![t].pc = "returning"]
    /\ Emit(t, [kind |-> "failed", msg |-> ExcText], "communicate_exc", NoCode, << >>)
    /\ UNCHANGED <<platform, ffmpeg_thread, enabled, overlay, windowState,
                   key_listener, selector, selTimer, region_checked, uiPc, uiCaller, stopsMade>>
    /\ UNCHANGED cmdVars

\* run() has returned: isRunning() is false from here on.
run_return(t) ==
    /\ AppRunning
    /\ threads[t].pc = "returning"
    /\ threads' = [threads EXCEPT ![t].pc = "finished"]
    /\ obs' = Forget(threads', uiQueue, obs)
    /\ UNCHANGED <<platform, ffmpeg_thread, enabled, overlay, windowState,
                   key_listener, selector, selTimer, region_checked, uiPc, uiCaller,
                   uiQueue, stopsMade>>
    /\ UNCHANGED cmdVars

\* ---------------------------------------------------------- specification
Next ==
    \/ start_recording
    \/ stop_button_clicked
    \/ \E key \in Keys : key_down(key)
    \/ closeEvent
    \/ deliver_signal
    \/ stop_set_flag
    \/ stop_send_delivered
    \/ stop_send_raises
    \/ stop_send_noop
    \/ select_region
    \/ start_selection
    \/ set_region
    \/ \E t \in Sessions : run_popen(t)
    \/ \E t \in Sessions : run_popen_raises(t)
    \/ \E t \in Sessions : process_exit(t)
    \/ \E t \in Sessions : \E status \in ExitStatuses : \E err \in StderrOutputs :
          run_classify(t, status, err)
    \/ \E t \in Sessions : run_communicate_raises(t)
    \/ \E t \in Sessions : run_return(t)

Spec == Init /\ [][Next]_vars

\* ------------------------------------------- capture geometry and command
\* QRect(topLeft, bottomRight) as <<x1, y1, x2, y2>>.
QRect(p1, p2) == <<p1[1], p1[2], p2[1], p2[2]>>

\* QRect.normalized(): corners are swapped where the far one lies more than
\* one unit before the near one.
normalized(r) ==
    <<IF r[3] < r[1] - 1 THEN r[3] ELSE r[1],
      IF r[4] < r[2] - 1 THEN r[4] ELSE r[2],
      IF r[3] < r[1] - 1 THEN r[1] ELSE r[3],
      IF r[4] < r[2] - 1 THEN r[2] ELSE r[4]>>

\* QRect.width() and QRect.height(): both corners belong to the rectangle.
width(r) == r[3] - r[1] + 1

height(r) == r[4] - r[2] + 1

\* QRect.isValid().
isValid(r) == r[1] <= r[3] /\ r[2] <= r[4]

\* `if self.capture_rect_global:` is false for None and for a QRect that is
\* not valid.
RectIsSet(r) == r # << >> /\ isValid(r)

\* str() of an integer.
str(n) == ToString(n)

\* Mutant of EvenSize: an odd size is rounded down.
EvenSize_RoundDown(n) == IF n % 2 = 0 THEN n ELSE n - 1

\* A width or height made divisible by 2.
EvenSize(n) == IF n % 2 = 0 THEN n ELSE n + 1

\* The offsets and the resolution start_recording passes to FFmpeg.
CaptureGeometry(st, rect) ==
    IF RectIsSet(rect)
    THEN [offset_x |-> rect[1], offset_y |-> rect[2],
          resolution |-> str(EvenSize(width(rect))) \o "x"
                           \o str(EvenSize(height(rect)))]
    ELSE [offset_x |-> ScreenGeometries[st.screen + 1].x,
          offset_y |-> ScreenGeometries[st.screen + 1].y,
          resolution |-> st.resolution]

\* Mutant of ScreenInput: the size is given before the offsets.
ScreenInput_SizeFirst(st, g) ==
    <<"-f", "gdigrab",
      "-framerate", str(st.fps),
      "-video_size", g.resolution,
      "-offset_x", str(g.offset_x),
      "-offset_y", str(g.offset_y),
      "-i", "desktop">>

\* Input options for the screen capture.
ScreenInput(st, g) ==
    <<"-f", "gdigrab",
      "-framerate", str(st.fps),
      "-offset_x", str(g.offset_x),
      "-offset_y", str(g.offset_y),
      "-video_size", g.resolution,
      "-i", "desktop">>

\* Mutant of AudioInput: the audio input is given twice.
AudioInput_Twice(st) ==
    IF st.audio_device # "None"
    THEN <<"-f", "dshow", "-i", "audio=" \o st.audio_device,
           "-f", "dshow", "-i", "audio=" \o st.audio_device>>
    ELSE << >>

\* Input options for the audio capture.
AudioInput(st) ==
    IF st.audio_device # "None"
    THEN <<"-f", "dshow", "-i", "audio=" \o st.audio_device>>
    ELSE << >>

\* Output options for the video.
VideoOutput == <<"-vcodec", "libx264", "-pix_fmt", "yuv420p", "-preset", "ultrafast">>

\* Mutant of AudioOutput: the audio codec is given whatever the device.
AudioOutput_Always(st) == <<"-acodec", "aac", "-b:a", st.bit_rate>>

\* Output options for the audio.
AudioOutput(st) ==
    IF st.audio_device # "None"
    THEN <<"-acodec", "aac", "-b:a", st.bit_rate>>
    ELSE << >>

\* Mutant of BuildCommand: the output file comes before the output options.
BuildCommand_PathFirst(st, g) ==
    <<"ffmpeg">> \o ScreenInput(st, g) \o AudioInput(st)
        \o <<"-y", st.output_path>> \o VideoOutput \o AudioOutput(st)

\* The command start_recording builds.
BuildCommand(st, g) ==
    <<"ffmpeg">> \o ScreenInput(st, g) \o AudioInput(st) \o VideoOutput
        \o AudioOutput(st) \o <<"-y", st.output_path>>

\* The main window's controls are enabled between sessions only.
ControlsEnabled == cmd = << >>

\* The user picks another entry of screen_combo.
screen_changed(i) ==
    /\ ControlsEnabled
    /\ settings' = [settings EXCEPT !.screen = i]
    /\ UNCHANGED <<start_pos_global, capture_rect_global, cmd>>
    /\ UNCHANGED sessionVars

\* The user picks another entry of res_combo.
resolution_changed(r) ==
    /\ ControlsEnabled
    /\ settings' = [settings EXCEPT !.resolution = r]
    /\ UNCHANGED <<start_pos_global, capture_rect_global, cmd>>
    /\ UNCHANGED sessionVars

\* The user changes fps_spin.
fps_changed(f) ==
    /\ ControlsEnabled
    /\ settings' = [settings EXCEPT !.fps = f]
    /\ UNCHANGED <<start_pos_global, capture_rect_global, cmd>>
    /\ UNCHANGED sessionVars

\* The user picks another entry of audio_combo.
audio_changed(a) ==
    /\ ControlsEnabled
    /\ settings' = [settings EXCEPT !.audio_device = a]
    /\ UNCHANGED <<start_pos_global, capture_rect_global, cmd>>
    /\ UNCHANGED sessionVars

\* The user picks another entry of bit_rate_combo.
bit_rate_changed(b) ==
    /\ ControlsEnabled
    /\ settings' = [settings EXCEPT !.bit_rate = b]
    /\ UNCHANGED <<start_pos_global, capture_rect_global, cmd>>
    /\ UNCHANGED sessionVars

\* The save dialog returns a file name, or "" when it is cancelled.
save_output_path(output_path) ==
    /\ ControlsEnabled
    /\ settings' = IF output_path # ""
                   THEN [settings EXCEPT !.output_path = output_path]
                   ELSE settings
    /\ UNCHANGED <<start_pos_global, capture_rect_global, cmd>>
    /\ UNCHANGED sessionVars

\* The mouse is pressed on the region selector.
mousePressEvent(globalPos) ==
    /\ ControlsEnabled
    /\ start_pos_global' = globalPos
    /\ UNCHANGED <<settings, capture_rect_global, cmd>>
    /\ UNCHANGED sessionVars

\* The mouse is released on the region selector: regionSelected carries the
\* normalized global rectangle to set_region, which stores it; the selector
\* is closed and a later selection uses a new one.
mouseReleaseEvent(globalPos) ==
    /\ ControlsEnabled
    /\ start_pos_global # << >>
    /\ capture_rect_global' = normalized(QRect(start_pos_global, globalPos))
    /\ start_pos_global' = << >>
    /\ UNCHANGED <<settings, cmd>>
    /\ UNCHANGED sessionVars

\* Mutant of start_recording_command: the region is not cleared.
start_recording_command_KeepsRegion ==
    /\ ControlsEnabled
    /\ settings.output_path # ""
    /\ cmd' = BuildCommand(settings, CaptureGeometry(settings, capture_rect_global))
    /\ UNCHANGED <<settings, start_pos_global, capture_rect_global>>
    /\ UNCHANGED sessionVars

\* The part of start_recording that resolves the geometry and builds the
\* command handed to the new FFmpegThread.
start_recording_command ==
    /\ ControlsEnabled
    /\ settings.output_path # ""
    /\ cmd' = BuildCommand(settings, CaptureGeometry(settings, capture_rect_global))
    /\ capture_rect_global' = IF RectIsSet(capture_rect_global)
                              THEN << >> ELSE capture_rect_global
    /\ UNCHANGED <<settings, start_pos_global>>
    /\ UNCHANGED sessionVars

\* The session has ended and its command is of no further use.
command_released ==
    /\ cmd # << >>
    /\ cmd' = << >>
    /\ UNCHANGED <<settings, start_pos_global, capture_rect_global>>
    /\ UNCHANGED sessionVars

CmdNext ==
    \/ \E i \in 0 .. Len(ScreenGeometries) - 1 : screen_changed(i)
    \/ \E r \in Resolutions : resolution_changed(r)
    \/ \E f \in FrameRates : fps_changed(f)
    \/ \E a \in AudioDevices : audio_changed(a)
    \/ \E b \in BitRates : bit_rate_changed(b)
    \/ \E path \in OutputPaths : save_output_path(path)
    \/ \E point \in MousePoints : mousePressEvent(point)
    \/ \E point \in MousePoints : mouseReleaseEvent(point)
    \/ start_recording_command
    \/ command_released

CmdSpec == Init /\ [][CmdNext]_vars

\* ================================================================== claims
\* Controls of the main window besides the Stop button that start_recording
\* disables and the claims name.
Controls ==
    {"start_button", "screen_combo", "res_combo", "fps_spin", "audio_combo",
     "region_checkbox"}

\* The statuses run() accepts as success when no stop was requested.
AcceptableStatuses == {0, 2, 130}

QueueIndex == 1 .. Len(uiQueue)

\* The step is the UI thread delivering the oldest queued signal.
DeliverStep == uiQueue # << >> /\ uiQueue' = Tail(uiQueue)

\* C1: once run() has emitted (the process has exited or could not be
\* spawned), the FFmpegThread has emitted exactly one signal in total, and
\* never more than one afterwards.
C1_ExactlyOneNotification ==
    \A t \in Sessions :
        /\ threads[t].pc = "returning" => Len(obs[t].emitted) = 1
        /\ threads[t].pc = "finished" => Len(obs[t].emitted) <= 1

\* C2: when stop() was called before the process exited, the signal run()
\* emits for that exit is finished, whatever the exit status.
C2_StopBeforeExitCompletes ==
    \A i \in QueueIndex :
        (uiQueue[i].by = "classify" /\ obs[uiQueue[i].t].stopBeforeExit)
            => uiQueue[i].kind = "finished"

\* C3: when stop() was never called on the thread, the signal run() emits for
\* an exit is finished for status 0, 2 and 130, and otherwise error_occurred
\* carrying the decoded, stripped stderr text.
C3_ClassificationByStatus ==
    \A i \in QueueIndex :
        LET q == uiQueue[i] IN
        (q.by = "classify" /\ obs[q.t].stopCalls = 0)
            => IF q.status \in AcceptableStatuses
               THEN q.kind = "finished"
               ELSE q.kind = "failed" /\ q.msg = Strip(Decode(q.stderr))

\* C3 witness: an unrequested exit with status 1 is queued as a failure whose
\* message is the stderr text without the undecodable byte and the whitespace.
C3_Witness ==
    \E i \in QueueIndex :
        /\ uiQueue[i].by = "classify"
        /\ obs[uiQueue[i].t].stopCalls = 0
        /\ uiQueue[i].status = 1
        /\ uiQueue[i].kind = "failed"
        /\ uiQueue[i].stderr = <<" ", "xFF", "E", "\n">>
        /\ uiQueue[i].msg = <<"E">>

\* C4: at most one interrupt signal is sent to the process of a session.
C4_AtMostOneSignal ==
    \A t \in Sessions : Len(obs[t].signals) <= 1

\* C5: at most one encoder process is alive.
C5_AtMostOneProcess ==
    Cardinality({t \in Sessions : threads[t].process = "alive"}) <= 1

\* C6 as claimed: the window is not closed while a session in which a close
\* was rejected still has its terminal signal undelivered.
C6_ClosedOnlyAfterDelivery ==
    windowState = "closed" =>
        \A t \in Sessions :
            obs[t].closeRejected > 0 => (~isRunning(t) /\ ~Queued(t))

\* C6 as amended: a close requested while the recording thread runs leaves
\* the window open and calls stop() exactly once (no further stop() is called
\* until that handler has returned), and the window is never closed while the
\* recording thread is running.
C6_CloseRejectedWhileRunning ==
    /\ [][(ffmpeg_thread # NoThread /\ isRunning(ffmpeg_thread))
            => windowState' # "closed"]_vars
    /\ [][\A t \in Sessions :
            obs'[t].closeRejected = obs[t].closeRejected + 1
                => /\ obs'[t].stopCalls = obs[t].stopCalls + 1
                   /\ stopsMade' = stopsMade + 1
                   /\ windowState' = windowState]_vars
    /\ [][uiPc # "idle" => stopsMade' = stopsMade]_vars
    /\ [](windowState = "closed"
            => (ffmpeg_thread = NoThread \/ ~isRunning(ffmpeg_thread)))

\* C6 witness: a close was rejected for the running thread and the stop() it
\* called is about to send the signal.
C6_Witness ==
    /\ uiPc = "stop_send"
    /\ uiCaller = "closeEvent"
    /\ isRunning(ffmpeg_thread)
    /\ obs[ffmpeg_thread].closeRejected = 1
    /\ windowState = "minimized"

\* C7: when the terminal signal of a session in which a close was rejected is
\* delivered, the window closes.
C7_DeferredCloseCompletes ==
    [][(DeliverStep /\ obs[Head(uiQueue).t].closeRejected > 0)
          => windowState' = "closed"]_vars

\* C8: every signal sent is the platform's graceful interrupt, and on Windows
\* every process is spawned in a new process group.
C8_GracefulSignalOnly ==
    \A t \in Sessions :
        /\ \A i \in 1 .. Len(obs[t].signals) :
              obs[t].signals[i] =
                  IF platform = "Windows" THEN "CTRL_BREAK_EVENT" ELSE "SIGINT"
        /\ (platform = "Windows" /\ threads[t].process # "None")
              => threads[t].creationflags = "CREATE_NEW_PROCESS_GROUP"

\* C8 witness: on Windows a signal has been sent to a spawned process.
C8_Witness ==
    \E t \in Sessions :
        /\ platform = "Windows"
        /\ threads[t].process # "None"
        /\ obs[t].signals = <<"CTRL_BREAK_EVENT">>

\* C9: delivering a failure emitted by run() leaves every control enabled,
\* the Stop button disabled and the overlay off, and starts no new thread.
C9_FailureReenablesControls ==
    [][(DeliverStep /\ Head(uiQueue).kind = "failed")
          => /\ \A w \in Controls : enabled'[w]
             /\ ~enabled'["stop_button"]
             /\ ~overlay'
             /\ threads' = threads]_vars

\* C10: when send_signal raises for a live process, the overlay and the
\* controls stay as they were, and an exit with a failing status is reported
\* as finished only if an interrupt was delivered.
C10_SignalFailureChangesNothing ==
    /\ [][(/\ uiPc = "stop_send"
           /\ threads[ffmpeg_thread].process = "alive"
           /\ Len(obs'[ffmpeg_thread].emitted) = Len(obs[ffmpeg_thread].emitted) + 1)
            => UNCHANGED <<overlay, enabled>>]_vars
    /\ [](\A i \in QueueIndex :
            (/\ uiQueue[i].by = "classify"
             /\ uiQueue[i].kind = "finished"
             /\ uiQueue[i].status \notin AcceptableStatuses)
                => obs[uiQueue[i].t].signals # << >>)

\* ------------------------------------------------- claims about the command
\* The step is start_recording building the command of a new session.
StartsCommand == cmd = << >> /\ cmd' # << >>

\* The argument that follows the first occurrence of flag in command c.
ArgAfter(c, flag) == c[(CHOOSE i \in 1 .. Len(c) : c[i] = flag) + 1]

\* The positions at which sub occurs in c as a run of consecutive arguments.
Occurrences(c, sub) ==
    {i \in 1 .. Len(c) - Len(sub) + 1 : SubSeq(c, i, i + Len(sub) - 1) = sub}

\* The arguments that name an audio input.
AudioInputNames == {"audio=" \o a : a \in AudioDevices}

\* C11: for a selected region whose global rectangle has a positive width
\* and height, the command has -offset_x and -offset_y equal to the
\* rectangle's global x and y, and -video_size equal to the width and the
\* height, each raised by one when odd.
C11_RegionGeometry ==
    [][(/\ StartsCommand
        /\ capture_rect_global # << >>
        /\ capture_rect_global[3] - capture_rect_global[1] + 1 > 0
        /\ capture_rect_global[4] - capture_rect_global[2] + 1 > 0)
          => LET x == capture_rect_global[1]
                 y == capture_rect_global[2]
                 w == capture_rect_global[3] - capture_rect_global[1] + 1
                 h == capture_rect_global[4] - capture_rect_global[2] + 1
             IN  /\ ArgAfter(cmd', "-offset_x") = ToString(x)
                 /\ ArgAfter(cmd', "-offset_y") = ToString(y)
                 /\ ArgAfter(cmd', "-video_size") =
                        ToString(IF w % 2 = 0 THEN w ELSE w + 1) \o "x"
                            \o ToString(IF h % 2 = 0 THEN h ELSE h + 1)]_vars

\* C11 witness: the region dragged from (100,50) to (300,250), 201 wide and
\* 201 high, is recorded at offset (100,50) with size 202x202.
C11_Witness ==
    /\ Occurrences(cmd, <<"-offset_x", "100", "-offset_y", "50",
                          "-video_size", "202x202">>) # {}
    /\ capture_rect_global = << >>

\* C12: when the selection has no extent in x or in y (the press and the
\* release are at the same x or the same y, or the rectangle is empty), the
\* next command captures the full chosen screen.
C12_DegenerateSelectionIsFullScreen ==
    [][(/\ StartsCommand
        /\ capture_rect_global # << >>
        /\ \/ capture_rect_global[3] - capture_rect_global[1] <= 0
           \/ capture_rect_global[4] - capture_rect_global[2] <= 0)
          => /\ ArgAfter(cmd', "-offset_x") =
                    ToString(ScreenGeometries[settings.screen + 1].x)
             /\ ArgAfter(cmd', "-offset_y") =
                    ToString(ScreenGeometries[settings.screen + 1].y)
             /\ ArgAfter(cmd', "-video_size") = settings.resolution]_vars

\* C13: with audio device "None" the command has no dshow input, no audio
\* input name, no -acodec and no -b:a.
C13_NoAudioStages ==
    [][(StartsCommand /\ settings.audio_device = "None")
          => \A i \in 1 .. Len(cmd') :
                 /\ cmd'[i] \notin {"dshow", "-acodec", "-b:a"}
                 /\ cmd'[i] \notin AudioInputNames]_vars

\* C13 witness: a command has been built with audio device "None".
C13_Witness ==
    /\ cmd # << >>
    /\ settings.audio_device = "None"
    /\ Occurrences(cmd, <<"-i", "desktop", "-vcodec", "libx264">>) # {}

\* C14: with an audio device other than "None" the command has exactly one
\* audio input stage, for that device and after the screen-capture input, and
\* exactly one audio codec stage, with the selected bit rate.
C14_OneAudioStage ==
    [][(StartsCommand /\ settings.audio_device # "None")
          => LET input == <<"-f", "dshow", "-i", "audio=" \o settings.audio_device>>
                 codec == <<"-acodec", "aac", "-b:a", settings.bit_rate>>
             IN  /\ Cardinality(Occurrences(cmd', input)) = 1
                 /\ Cardinality(Occurrences(cmd', <<"dshow">>)) = 1
                 /\ Cardinality({i \in 1 .. Len(cmd') : cmd'[i] \in AudioInputNames}) = 1
                 /\ \A i \in Occurrences(cmd', input) :
                        \A j \in Occurrences(cmd', <<"-i", "desktop">>) : j < i
                 /\ Cardinality(Occurrences(cmd', codec)) = 1
                 /\ Cardinality(Occurrences(cmd', <<"-acodec">>)) = 1
                 /\ Cardinality(Occurrences(cmd', <<"-b:a">>)) = 1]_vars

\* C14 witness: a command records the microphone at 128k.
C14_Witness ==
    /\ Occurrences(cmd, <<"-i", "desktop", "-f", "dshow", "-i", "audio=Microphone">>) # {}
    /\ Occurrences(cmd, <<"-acodec", "aac", "-b:a", "128k">>) # {}

\* C15 as claimed: with no region selected the command contains, in this
\* order, -framerate F -video_size R -offset_x X -offset_y Y.
C15_ScenarioOrder ==
    [][(StartsCommand /\ capture_rect_global = << >>)
          => Occurrences(cmd',
                 <<"-framerate", ToString(settings.fps),
                   "-video_size", settings.resolution,
                   "-offset_x", ToString(ScreenGeometries[settings.screen + 1].x),
                   "-offset_y", ToString(ScreenGeometries[settings.screen + 1].y)>>)
               # {}]_vars

\* C15 as amended: with no region selected the command contains, in this
\* order, -framerate F -offset_x X -offset_y Y -video_size R.
C15_CodeOrder ==
    [][(StartsCommand /\ capture_rect_global = << >>)
          => Occurrences(cmd',
                 <<"-framerate", ToString(settings.fps),
                   "-offset_x", ToString(ScreenGeometries[settings.screen + 1].x),
                   "-offset_y", ToString(ScreenGeometries[settings.screen + 1].y),
                   "-video_size", settings.resolution>>)
               # {}]_vars

\* C15 witness: screen 0, 1920x1080, 30 fps, no audio, output /tmp/out.mp4.
C15_Witness ==
    cmd = <<"ffmpeg", "-f", "gdigrab", "-framerate", "30", "-offset_x", "0",
            "-offset_y", "0", "-video_size", "1920x1080", "-i", "desktop",
            "-vcodec", "libx264", "-pix_fmt", "yuv420p", "-preset", "ultrafast",
            "-y", "/tmp/out.mp4">>

\* C16: the last two arguments of every command are -y and the output path,
\* and the video codec, pixel format and preset occur exactly once, before
\* them.
C16_OverwriteAndPathLast ==
    [][StartsCommand
          => LET n == Len(cmd')
                 video == <<"-vcodec", "libx264", "-pix_fmt", "yuv420p",
                            "-preset", "ultrafast">>
             IN  /\ n >= 2
                 /\ cmd'[n - 1] = "-y"
                 /\ cmd'[n] = settings.output_path
                 /\ Cardinality(Occurrences(cmd', video)) = 1
                 /\ Cardinality(Occurrences(cmd', <<"-vcodec">>)) = 1
                 /\ \A i \in Occurrences(cmd', video) : i + Len(video) - 1 < n - 1]_vars

\* C16 witness: a command with audio ends with -y and the chosen file.
C16_Witness ==
    /\ Len(cmd) = 29
    /\ SubSeq(cmd, 28, 29) = <<"-y", "/tmp/out.mp4">>
    /\ settings.output_path = "/tmp/out.mp4"

\* ----------------------------------------- claims about listener and stop()
\* C17: when the terminal signal of a session has been handled, the key
\* listener is not running.
C17_ListenerStoppedAtSessionEnd ==
    [][DeliverStep => key_listener' # "running"]_vars

\* C18: a signal is sent only when the flag is already set, run() chooses its
\* signal only when the process has exited, and an exit after a delivered
\* interrupt is reported as finished.
C18_FlagBeforeSignal ==
    /\ [][\A t \in Sessions :
            Len(obs'[t].signals) > Len(obs[t].signals) => threads[t].stopping]_vars
    /\ [][\A t \in Sessions :
            (/\ Len(uiQueue') = Len(uiQueue) + 1
             /\ uiQueue'[Len(uiQueue')].t = t
             /\ uiQueue'[Len(uiQueue')].by = "classify")
                => threads[t].process = "exited"]_vars
    /\ [](\A i \in QueueIndex :
            (uiQueue[i].by = "classify" /\ obs[uiQueue[i].t].signals # << >>)
                => uiQueue[i].kind = "finished")

\* C18 witness: an exit with status 1 after a delivered interrupt is queued as
\* finished.
C18_Witness ==
    \E i \in QueueIndex :
        /\ uiQueue[i].by = "classify"
        /\ uiQueue[i].status = 1
        /\ obs[uiQueue[i].t].signals # << >>
        /\ threads[uiQueue[i].t].stopping
        /\ uiQueue[i].kind = "finished"

\* The step is a stop request: the Stop button, the 's' key, or a close
\* request while the recording thread runs.
StopRequested ==
    \/ stop_button_clicked
    \/ key_down("s")
    \/ (closeEvent /\ ffmpeg_thread # NoThread /\ isRunning(ffmpeg_thread))

\* No encoder process of the current session is running.
NoProcessRunning ==
    ffmpeg_thread = NoThread \/ threads[ffmpeg_thread].process # "alive"

\* The step sends no signal, sets no flag, emits nothing and leaves the
\* widgets, the overlay and the window as they are.
SupervisorUntouched ==
    /\ threads' = threads
    /\ uiQueue' = uiQueue
    /\ \A t \in Sessions :
          obs'[t].signals = obs[t].signals /\ obs'[t].emitted = obs[t].emitted
    /\ uiPc' = "idle"
    /\ UNCHANGED <<ffmpeg_thread, enabled, overlay, windowState, key_listener,
                   region_checked, selTimer>>

\* C19 as claimed: a stop request with no encoder process running changes
\* nothing.
C19_StopWithoutProcessChangesNothing ==
    [][(StopRequested /\ NoProcessRunning)
          => (SupervisorUntouched /\ selector' = selector)]_vars

\* C19 as amended: a stop request with no encoder process running sends no
\* signal, sets no flag, emits nothing and leaves the widgets, the overlay
\* and the window as they are; the Stop button and the 's' key close the
\* region selector when there is one.
C19_StopWithoutProcessIsNoOp ==
    [][(StopRequested /\ NoProcessRunning)
          => /\ SupervisorUntouched
             /\ selector' \in {selector, "closed"}
             /\ selector = "None" => selector' = "None"]_vars

\* C19 witness: stop() has been called on a thread that has not spawned its
\* process yet, and nothing came of it.
C19_Witness ==
    /\ ffmpeg_thread # NoThread
    /\ threads[ffmpeg_thread].pc = "start"
    /\ obs[ffmpeg_thread].stopCalls = 1
    /\ ~threads[ffmpeg_thread].stopping
    /\ obs[ffmpeg_thread].signals = << >>
    /\ obs[ffmpeg_thread].emitted = << >>
    /\ uiPc = "idle"

\* C20: a signal emitted by the except clause of run() is error_occurred with
\* the exception's message, and a thread whose run() raised never emits
\* finished.
C20_ExceptionReportsFailure ==
    /\ \A i \in QueueIndex :
          uiQueue[i].by \in {"popen_exc", "communicate_exc"}
              => uiQueue[i].kind = "failed" /\ uiQueue[i].msg = ExcText
    /\ \A t \in Sessions :
          (\E i \in 1 .. Len(obs[t].emitted) :
                obs[t].emitted[i].by \in {"popen_exc", "communicate_exc"})
              => \A i \in 1 .. Len(obs[t].emitted) : obs[t].emitted[i].kind = "failed"

\* C20 witness: Popen raised, run() has returned and its failure is queued.
C20_Witness ==
    \E i \in QueueIndex :
        /\ uiQueue[i].by = "popen_exc"
        /\ uiQueue[i].kind = "failed"
        /\ uiQueue[i].msg = ExcText
        /\ threads[uiQueue[i].t].pc = "finished"
        /\ threads[uiQueue[i].t].process = "None"

\* ------------------------------------------------ claims about the region
\* C21: the start_recording that finds a valid region uses its geometry and
\* clears it; a start_recording that finds none uses the origin of the chosen
\* screen and the resolution setting; and only a mouse release on the region
\* selector sets a region.
C21_RegionConsumedOnce ==
    /\ [][(/\ StartsCommand
           /\ capture_rect_global # << >>
           /\ capture_rect_global[1] <= capture_rect_global[3]
           /\ capture_rect_global[2] <= capture_rect_global[4])
            => /\ capture_rect_global' = << >>
               /\ ArgAfter(cmd', "-offset_x") = ToString(capture_rect_global[1])
               /\ ArgAfter(cmd', "-offset_y") = ToString(capture_rect_global[2])]_vars
    /\ [][(StartsCommand /\ capture_rect_global = << >>)
            => /\ capture_rect_global' = << >>
               /\ ArgAfter(cmd', "-offset_x") =
                      ToString(ScreenGeometries[settings.screen + 1].x)
               /\ ArgAfter(cmd', "-offset_y") =
                      ToString(ScreenGeometries[settings.screen + 1].y)
               /\ ArgAfter(cmd', "-video_size") = settings.resolution]_vars
    /\ [][(capture_rect_global' # capture_rect_global /\ capture_rect_global' # << >>)
            => (start_pos_global # << >> /\ cmd = << >> /\ cmd' = << >>)]_vars

\* C21 witness: a session on screen 0 records a region at x = -1000, which is
\* not the origin of that screen, and the region is cleared.
C21_Witness ==
    /\ cmd # << >>
    /\ settings.screen = 0
    /\ ArgAfter(cmd, "-offset_x") = "-1000"
    /\ capture_rect_global = << >>

\* ------------------------------------------------- claims about the session
\* C22: a key-down event for 'p', 'u' or a key that is not listed changes
\* nothing, and a stop request made while the Stop button is disabled comes
\* from the running key listener (the 's' key).
C22_OnlySKeyStops ==
    /\ [][\A key \in Keys \ {"s"} : key_down(key) => UNCHANGED vars]_vars
    /\ [][(stop_recording /\ ~enabled["stop_button"])
            => (key_listener = "running" /\ key_down("s"))]_vars

\* C22 witness: with the Stop button disabled and the key listener running,
\* stop() has been entered for a live process: the 's' key requested it.
C22_Witness ==
    /\ ~enabled["stop_button"]
    /\ key_listener = "running"
    /\ uiPc = "stop_flag"
    /\ uiCaller = "stop_recording"
    /\ threads[ffmpeg_thread].process = "alive"

\* No recording thread is running, no region selection is in progress and the
\* UI thread is in its event loop.
Idle ==
    /\ UiReady
    /\ \A t \in Sessions : ~isRunning(t)
    /\ selector \notin {"created", "shown"}

\* C23: in every Idle state the Stop button is disabled and the Start button
\* is enabled.
C23_IdleButtons ==
    Idle => (~enabled["stop_button"] /\ enabled["start_button"])

\* C24: once a stop() called for a session has returned and that session's
\* process is alive, the process has been flagged for stop; a request that
\* left no flag behind is lost, since nothing else will interrupt the process.
C24_StopNeverLost ==
    \A t \in Sessions :
        (/\ obs[t].stopCalls > 0
         /\ threads[t].process = "alive"
         /\ uiPc = "idle")
            => threads[t].stopping

\* C25: an exit with a status other than 0, 2 and 130 of a process that no
\* interrupt was delivered to is reported as failed.
C25_UnsignalledFailureReported ==
    \A i \in QueueIndex :
        (/\ uiQueue[i].by = "classify"
         /\ uiQueue[i].status \notin AcceptableStatuses
         /\ obs[uiQueue[i].t].signals = << >>)
            => uiQueue[i].kind = "failed"

\* C26: when the region selector closes, by a selection or by a stop request,
\* the Start button and the settings controls are enabled.
C26_SelectionEndReenablesControls ==
    [][(selector \in {"created", "shown"} /\ selector' = "closed")
          => \A w \in Controls : enabled'[w]]_vars
====
